---- MODULE Spec2Model ----
(***************************************************************************)
(* QTablePanel (src/src/QTablePanel.tsx): a React panel that keeps a       *)
(* displayed Q-table synchronised with a remote service.  The model holds  *)
(* the component's state, every asynchronous task it starts (session       *)
(* reset, refresh, demo sequence) with its position at each await, and the *)
(* remote service as an opaque collaborator that answers each request      *)
(* with a success, a non-2xx status or a network failure.                  *)
(***************************************************************************)
EXTENDS Naturals, Sequences, FiniteSets, TLC

(* ------------------------------------------------------------------ *)
(* Bounds                                                             *)
(* ------------------------------------------------------------------ *)

\* Number of asynchronous tasks (reset, refresh, demo) one run may start.
MaxOps == 4

\* The same bound for a session in which one thing runs at a time.
MaxSerialOps == 5

\* Identities the userId prop ranges over.
Users == {"guest", "alice"}

\* userId = "guest": the prop's default, the identity of the first render.
DefaultUser == "guest"

\* Action identifiers the service may return from /q/choose.
Actions == {3}

\* Keyboard events: key values pressed, with any combination of modifiers.
Keys == {"r", "R", "x"}

(* ------------------------------------------------------------------ *)
(* State                                                              *)
(* ------------------------------------------------------------------ *)

VARIABLES
  userId,       \* the userId prop of the current render
  keyUser,      \* the userId closed over by the keydown listener's refresh
  rows,         \* useState<QRow[]>: displayed rows (a set of row tokens)
  busyDemo,     \* useState(false): busy for demo actions
  refreshing,   \* useState(false): busy for refresh
  error,        \* useState(""): last error message
  lastUpdated,  \* useState<number|null>: <<>> is null, <<t>> is the time t
  now,          \* the clock Date.now() reads
  ops,          \* every async task started so far, in start order
  table,        \* the service's table per user (a set of row tokens)
  hist          \* history of the run, read only by the properties:
                \*   applied: the writes (reset and update tasks) the service
                \*     has applied; lastOkRows: the rows field of the last
                \*     successful /q/table response the client handled
                \*     (empty when it was not an array);
                \*   prevRows: the rows displayed just before it; cleared: a
                \*     /reset response was handled since; rowsOp: the task
                \*     that wrote rows last (0: none); rowsAsOf: the writes
                \*     applied when the service produced what rowsOp wrote;
                \*   okAt: the time of the last successful refresh; stampAt:
                \*     the time of the last successful refresh or handled
                \*     /reset response; fired: the keydown event that
                \*     last started a refresh (kept by KeyPress only)

vars == <<userId, keyUser, rows, busyDemo, refreshing, error, lastUpdated,
          now, ops, table, hist>>

ui == <<rows, busyDemo, refreshing, error, lastUpdated, now>>

Null == <<>>

\* Row tokens: the row 0 exists before the session; a demo update made by
\* task d adds the row d.

(* ------------------------------------------------------------------ *)
(* Responses and failures                                             *)
(* ------------------------------------------------------------------ *)

\* A response as the client sees it.  status "ok" is response.ok, "http" a
\* non-2xx status, "neterr" a rejected fetch.  parse: the body is JSON;
\* isNull: the JSON value is null (reading a property of it throws);
\* isArray/rows: the rows field; hasAction/action: the action field.
\* asOf records which writes the service had applied when it produced the
\* response (history only).
NoResp ==
  [status |-> "none", parse |-> FALSE, isNull |-> FALSE,
   isArray |-> FALSE, rows |-> {},
   hasAction |-> FALSE, action |-> 0, asOf |-> {}]

NoReq == [path |-> "none"]

HttpStatus == "500"

\* new Error(`GET /q/table HTTP ${r.status}`)
HttpError(method, path) ==
  [name |-> "Error", message |-> method \o " " \o path \o " HTTP " \o HttpStatus]

\* fetch() rejects with a TypeError on a network failure.
NetworkError == [name |-> "TypeError", message |-> "Failed to fetch"]

\* r.json() rejects with a SyntaxError on an unparseable body.
ParseError == [name |-> "SyntaxError", message |-> "Unexpected token < in JSON"]

\* j.rows / choose.action throws a TypeError when the parsed body is null.
NullError(field) ==
  [name |-> "TypeError",
   message |-> "Cannot read properties of null (reading '" \o field \o "')"]

\* The field of the parsed body each handler reads.
FieldRead(path) == IF path = "/q/table" THEN "rows" ELSE "action"

\* String(e?.message || e)
ErrText(e) == IF e.message # "" THEN e.message ELSE e.name

(* ------------------------------------------------------------------ *)
(* Tasks                                                              *)
(* ------------------------------------------------------------------ *)

\* kind: "reset" | "refresh" | "demo"; user: the userId the closure holds;
\* step: the request the task is at ("reset", "table", "choose", "update",
\* "done"); phase: "sent" (request in flight), "replied" (the response, or
\* the network failure, has reached the client and the continuation is due);
\* calls, okCalls, outcome: history of the task.
NewOp(kind, user, step) ==
  [kind |-> kind, user |-> user, step |-> step, phase |-> "sent",
   success |-> FALSE, resp |-> NoResp, req |-> NoReq,
   hasAction |-> FALSE, action |-> 0,
   calls |-> <<step>>, okCalls |-> {}, outcome |-> "running"]

OpIds == 1..Len(ops)

InFlight(i) == ops[i].step # "done"

Room(n) == Len(ops) + n <= MaxOps

\* { difficulty: 2, enemies: 1, timeMult: 1, recentSR: success ? 0.7 : 0.3 }
\* (recentSR in hundredths)
DemoState(success) ==
  [difficulty |-> 2, enemies |-> 1, timeMult |-> 1,
   recentSR |-> IF success THEN 70 ELSE 30]

\* Variant: next_state is the state itself.
NextStateSame(state, success) == state

\* { ...state, recentSR: success ? 0.75 : 0.25 }
NextState(state, success) ==
  [state EXCEPT !.recentSR = IF success THEN 75 ELSE 25]

\* success ? 1.0 : -1.0, as a magnitude and a sign
RewardMagnitude(success) == 1
RewardPositive(success) == success

(* ------------------------------------------------------------------ *)
(* The component's code, piece by piece                               *)
(* ------------------------------------------------------------------ *)

\* Variant: the demo buttons look at refreshing only.
DemoDisabledRefreshOnly == refreshing

\* disabled={busyDemo || refreshing} on both demo buttons
DemoDisabled == busyDemo \/ refreshing

\* disabled={refreshing || busyDemo} on the refresh button
RefreshDisabled == refreshing \/ busyDemo

\* e.key.toLowerCase()
ToLowerCase(k) == IF k = "R" THEN "r" ELSE k

\* e.key.toLowerCase() === "r" && !e.ctrlKey && !e.metaKey && !e.altKey
KeyFires(e) == ToLowerCase(e.key) = "r" /\ ~e.ctrlKey /\ ~e.metaKey /\ ~e.altKey

\* No keydown event.
NoEvent ==
  [key |-> "", ctrlKey |-> FALSE, metaKey |-> FALSE, altKey |-> FALSE,
   shiftKey |-> FALSE]

\* Variant: the fetched rows are added to the displayed ones.
RowsMerged(j, old) == old \cup (IF j.isArray THEN j.rows ELSE {})

\* Array.isArray(j.rows) ? j.rows : []  (old: the rows displayed before)
RowsOf(j, old) == IF j.isArray THEN j.rows ELSE {}

\* Variant: the initial fetch effect is declared before the reset effect.
IdentityEffectsSwapped(u) ==
  <<NewOp("refresh", u, "table"), NewOp("reset", u, "reset")>>

\* The two effects keyed on [API, userId], in declaration order: the reset
\* effect, then the initial fetch.
IdentityEffects(u) ==
  <<NewOp("reset", u, "reset"), NewOp("refresh", u, "table")>>

\* Variant: useState<number | null>(0)
InitialLastUpdatedZero == <<0>>

\* useState<number | null>(null)
InitialLastUpdated == Null

\* refresh(), up to its first await: setError(""); setRefreshing(true)
RefreshBegin == error' = "" /\ refreshing' = TRUE

\* Variant: a failed refresh blanks the table.
RefreshCatchClears(e) ==
  error' = ErrText(e) /\ rows' = {} /\ UNCHANGED <<lastUpdated, now>>

\* refresh(): catch (e) { setError(String(e?.message || e)) }
RefreshCatch(e) == error' = ErrText(e) /\ UNCHANGED <<rows, lastUpdated, now>>

\* Variant: refresh clears refreshing nowhere.
RefreshFinallyKeeps == UNCHANGED refreshing

\* refresh(): finally { setRefreshing(false) }
RefreshFinally == refreshing' = FALSE

\* Variant: demoStep's catch only logs, as the reset effect's does.
DemoCatchSilent(e) == UNCHANGED error

\* demoStep(): catch (e) { setError(String(e?.message || e)) }
DemoCatch(e) == error' = ErrText(e)

\* Variant: demoStep clears busyDemo at the end of its try block only.
DemoFinallyKeeps == UNCHANGED busyDemo

\* demoStep(): finally { setBusyDemo(false) }
DemoFinally == busyDemo' = FALSE

\* What follows the end of refresh() in its caller: demoStep's finally
\* when the refresh was the demo's `await refresh()`, nothing otherwise.
RefreshReturn(i) ==
  IF ops[i].kind = "demo" THEN DemoFinally ELSE UNCHANGED busyDemo

\* Variant: the ok checks are missing.
NotOkNever(r) == FALSE

\* !r.ok, for a response that arrived (/q/table, /q/choose, /q/update)
NotOk(r) == r.status = "http"

\* The reset effect's try block passes (no exception) unless fetch rejects:
\* it never looks at the response's status.
ResetThrows(r) == r.status = "neterr"

\* A finished task keeps its kind, its user and how it ended: "ok" when
\* the last response it handled was a success, "fail" when it was not.
Finish(op, outcome) ==
  [NewOp(op.kind, op.user, "done") EXCEPT
     !.phase = "-", !.calls = <<>>, !.outcome = outcome]

(* ------------------------------------------------------------------ *)
(* Initial state: the first render and its effects have run           *)
(* ------------------------------------------------------------------ *)

Init ==
  /\ userId = DefaultUser
  /\ keyUser = userId
  /\ rows = {}
  /\ busyDemo = FALSE
  /\ refreshing = TRUE
  /\ error = ""
  /\ lastUpdated = InitialLastUpdated
  /\ now = 1
  /\ ops = IdentityEffects(userId)
  /\ table = [u \in Users |-> {0}]
  /\ hist = [applied |-> {}, lastOkRows |-> {}, prevRows |-> {},
             cleared |-> FALSE, rowsOp |-> 0, rowsAsOf |-> {},
             okAt |-> Null, stampAt |-> Null, fired |-> NoEvent]

(* ------------------------------------------------------------------ *)
(* Triggers                                                           *)
(* ------------------------------------------------------------------ *)

\* <button onClick={refresh} disabled={refreshing || busyDemo}>
ClickRefresh ==
  /\ ~RefreshDisabled
  /\ RefreshBegin
  /\ ops' = Append(ops, NewOp("refresh", userId, "table"))
  /\ UNCHANGED <<userId, keyUser, rows, busyDemo, lastUpdated, now, table, hist>>

\* window keydown listener, registered once by the effect with no
\* dependencies: its refresh is the first render's.
OnKey(e) ==
  /\ KeyFires(e)
  /\ RefreshBegin
  /\ ops' = Append(ops, NewOp("refresh", keyUser, "table"))
  /\ UNCHANGED <<userId, keyUser, rows, busyDemo, lastUpdated, now, table>>

KeyDown(e) == OnKey(e) /\ UNCHANGED hist

\* The same, with the event kept in the history.
KeyPress(e) == OnKey(e) /\ hist' = [hist EXCEPT !.fired = e]

\* <button onClick={() => demoStep(success)} disabled={busyDemo || refreshing}>
\* demoStep up to its first await: the /q/choose request is sent.
ClickDemo(success) ==
  /\ ~DemoDisabled
  /\ busyDemo' = TRUE
  /\ error' = ""
  /\ ops' = Append(ops,
        [NewOp("demo", userId, "choose") EXCEPT
           !.success = success,
           !.req = [path |-> "/q/choose", state |-> DemoState(success)]])
  /\ UNCHANGED <<userId, keyUser, rows, refreshing, lastUpdated, now, table, hist>>

\* Variant: the effects' cleanup aborts what the previous identity left
\* in flight.
IdentityChangeCancels(u) ==
  /\ u # userId
  /\ userId' = u
  /\ ops' = [i \in OpIds |->
               IF InFlight(i) /\ ops[i].kind # "reset"
               THEN Finish(ops[i], "fail") ELSE ops[i]] \o IdentityEffects(u)
  /\ RefreshBegin
  /\ busyDemo' = FALSE
  /\ UNCHANGED <<keyUser, rows, lastUpdated, now, table, hist>>

\* The userId prop changes: both [API, userId] effects run again.
IdentityChange(u) ==
  /\ u # userId
  /\ userId' = u
  /\ ops' = ops \o IdentityEffects(u)
  /\ RefreshBegin
  /\ UNCHANGED <<keyUser, rows, busyDemo, lastUpdated, now, table, hist>>

(* ------------------------------------------------------------------ *)
(* The remote service and the network                                 *)
(* ------------------------------------------------------------------ *)

\* The service takes a step of its own where its table is read or written:
\* the 2xx answer then travels back (phase "replied").  Answers that do not
\* depend on the table and leave it alone (a request the network fails, a
\* non-2xx status, a malformed body, the chosen action) are inputs of the
\* continuation that handles them.

Sent(i, step) == i \in OpIds /\ ops[i].step = step /\ ops[i].phase = "sent"

Reply(i, r) == ops' = [ops EXCEPT ![i].phase = "replied", ![i].resp = r]

\* The fetch promise rejects.
Lost == [NoResp EXCEPT !.status = "neterr"]

\* A non-2xx response; its body is a JSON error object.
HttpFail == [NoResp EXCEPT !.status = "http", !.parse = TRUE, !.asOf = hist.applied]

\* A 2xx response whose body is not JSON.
BadJson == [NoResp EXCEPT !.status = "ok"]

\* A 2xx response whose JSON body has no usable field ({}).
EmptyJson == [NoResp EXCEPT !.status = "ok", !.parse = TRUE, !.asOf = hist.applied]

\* A 2xx response whose JSON body is null.
NullJson == [EmptyJson EXCEPT !.isNull = TRUE]

\* 200 { action: a }
Chosen(a) == [EmptyJson EXCEPT !.hasAction = TRUE, !.action = a]

\* POST /reset?user={id} -> 2xx: the user's table is emptied.
ServeReset(i) ==
  /\ Sent(i, "reset")
  /\ table' = [table EXCEPT ![ops[i].user] = {}]
  /\ hist' = [hist EXCEPT !.applied = @ \cup {i}]
  /\ Reply(i, [NoResp EXCEPT !.status = "ok", !.asOf = hist'.applied])
  /\ UNCHANGED <<userId, keyUser, ui>>

\* GET /q/table?user={id}&_={bust} -> 200 { rows: [...] }
ServeTable(i) ==
  /\ Sent(i, "table")
  /\ Reply(i, [NoResp EXCEPT !.status = "ok", !.parse = TRUE, !.isArray = TRUE,
                             !.rows = table[ops[i].user],
                             !.asOf = hist.applied])
  /\ UNCHANGED <<userId, keyUser, ui, table, hist>>

\* POST /q/update?user={id} -> 2xx: the service learns from the step and
\* the user's table gains the row of this update.
ServeUpdate(i) ==
  /\ Sent(i, "update")
  /\ table' = [table EXCEPT ![ops[i].user] = @ \cup {i}]
  /\ hist' = [hist EXCEPT !.applied = @ \cup {i}]
  /\ Reply(i, [NoResp EXCEPT !.status = "ok"])
  /\ UNCHANGED <<userId, keyUser, ui>>

\* The responses task i may be resumed with: the one that travelled back,
\* or else one of `inputs`.
Arrived(i, inputs) == IF ops[i].phase = "replied" THEN {ops[i].resp} ELSE inputs

(* ------------------------------------------------------------------ *)
(* Continuations: the code after each await                           *)
(* ------------------------------------------------------------------ *)

At(i, step) == i \in OpIds /\ ops[i].step = step

\* `await fetchJSON(...)`, `if (!r.ok) throw ...`, `await r.json()`, then
\* the read of j.rows or choose.action: does one of them throw for
\* response r, and what.
Throws(r) == r.status = "neterr" \/ NotOk(r) \/ ~r.parse \/ r.isNull

Thrown(r, method, path) ==
  IF r.status = "neterr" THEN NetworkError
  ELSE IF NotOk(r) THEN HttpError(method, path)
  ELSE IF ~r.parse THEN ParseError
  ELSE NullError(FieldRead(path))

\* The same for /q/update, whose body is never read.
UpdateThrows(r) == r.status = "neterr" \/ NotOk(r)

\* History: did the request that r answers succeed (a 2xx response; with
\* a JSON body the handler can read where the body is read).
Succeeded(r, step) ==
  r.status = "ok" /\ (step \in {"update", "reset"} \/ (r.parse /\ ~r.isNull))

OkCall(r, step) == IF Succeeded(r, step) THEN {step} ELSE {}

Outcome(r, step) == IF Succeeded(r, step) THEN "ok" ELSE "fail"

\* The reset effect after `await fetchJSON(.../reset...)`.
ResetHandle(i, r) ==
  /\ IF ResetThrows(r)
     THEN UNCHANGED <<ui, hist>>
     ELSE /\ rows' = {}
          /\ lastUpdated' = <<now>>
          /\ now' = now + 1
          /\ hist' = [hist EXCEPT !.cleared = TRUE, !.rowsOp = i,
                                  !.rowsAsOf = r.asOf, !.stampAt = <<now>>]
          /\ UNCHANGED <<busyDemo, refreshing, error>>
  /\ ops' = [ops EXCEPT ![i] = Finish(@, Outcome(r, "reset"))]
  /\ UNCHANGED <<userId, keyUser, table>>

ResetDone(i) ==
  /\ At(i, "reset")
  /\ \E r \in Arrived(i, {Lost, HttpFail}) : ResetHandle(i, r)

\* refresh() after `await fetchJSON(.../q/table...)`: the ok check, then
\* after `await r.json()` the rest.  The body came with the response and
\* the code between the two awaits touches no state, so both continuations
\* are one step.
RefreshHandle(i, r) ==
  /\ IF Throws(r)
     THEN /\ RefreshCatch(Thrown(r, "GET", "/q/table"))
          /\ UNCHANGED hist
     ELSE /\ rows' = RowsOf(r, rows)
          /\ lastUpdated' = <<now>>
          /\ now' = now + 1
          /\ UNCHANGED error
          /\ hist' = [hist EXCEPT
                        !.lastOkRows = IF r.isArray THEN r.rows ELSE {},
                        !.prevRows = rows,
                        !.cleared = FALSE, !.rowsOp = i,
                        !.rowsAsOf = r.asOf,
                        !.okAt = <<now>>, !.stampAt = <<now>>]
  /\ RefreshFinally
  /\ RefreshReturn(i)
  /\ ops' = [ops EXCEPT ![i] = Finish(@, Outcome(r, "table"))]
  /\ UNCHANGED <<userId, keyUser, table>>

RefreshDone(i) ==
  /\ At(i, "table")
  /\ \E r \in Arrived(i, {Lost, HttpFail, BadJson, NullJson, EmptyJson}) :
       RefreshHandle(i, r)

\* JSON.stringify({ state, action, reward, next_state, done: false }): an
\* undefined action leaves the body without the action key.
UpdateBody(success, choose) ==
  [path |-> "/q/update", state |-> DemoState(success),
   hasAction |-> choose.hasAction, action |-> choose.action,
   reward |-> RewardMagnitude(success), positive |-> RewardPositive(success),
   next_state |-> NextState(DemoState(success), success), done |-> FALSE]

\* demoStep() after `await fetchJSON(.../q/choose...)`: the ok check, then
\* after `await chooseRes.json()` the /q/update request is sent.
ChooseHandle(i, r) ==
  /\ IF Throws(r)
     THEN /\ DemoCatch(Thrown(r, "POST", "/q/choose"))
          /\ DemoFinally
          /\ ops' = [ops EXCEPT ![i] = Finish(@, Outcome(r, "choose"))]
          /\ UNCHANGED <<rows, refreshing, lastUpdated, now>>
     ELSE /\ ops' = [ops EXCEPT ![i] =
                       [@ EXCEPT !.step = "update", !.phase = "sent",
                                 !.hasAction = r.hasAction,
                                 !.action = r.action,
                                 !.req = UpdateBody(ops[i].success, r),
                                 !.calls = Append(@, "update"),
                                 !.okCalls = @ \cup OkCall(r, "choose")]]
          /\ UNCHANGED ui
  /\ UNCHANGED <<userId, keyUser, table, hist>>

ChooseDone(i) ==
  /\ At(i, "choose")
  /\ \E r \in {Lost, HttpFail, BadJson, NullJson, EmptyJson}
              \cup {Chosen(a) : a \in Actions} :
       ChooseHandle(i, r)

\* demoStep() after `await fetchJSON(.../q/update...)`: the ok check, then
\* `await refresh()` up to its first await.
UpdateHandle(i, r) ==
  /\ IF UpdateThrows(r)
     THEN /\ DemoCatch(Thrown(r, "POST", "/q/update"))
          /\ DemoFinally
          /\ ops' = [ops EXCEPT ![i] = Finish(@, Outcome(r, "update"))]
          /\ UNCHANGED <<rows, refreshing, lastUpdated, now>>
     ELSE /\ RefreshBegin
          /\ ops' = [ops EXCEPT ![i] =
                       [@ EXCEPT !.step = "table", !.phase = "sent",
                                 !.req = NoReq, !.resp = NoResp,
                                 !.calls = Append(@, "table"),
                                 !.okCalls = @ \cup OkCall(r, "update")]]
          /\ UNCHANGED <<rows, busyDemo, lastUpdated, now>>
  /\ UNCHANGED <<userId, keyUser, table, hist>>

UpdateDone(i) ==
  /\ At(i, "update")
  /\ \E r \in Arrived(i, {Lost, HttpFail}) : UpdateHandle(i, r)

(* ------------------------------------------------------------------ *)
(* Specification                                                      *)
(* ------------------------------------------------------------------ *)

KeyEvents ==
  [key : Keys, ctrlKey : BOOLEAN, metaKey : BOOLEAN, altKey : BOOLEAN,
   shiftKey : BOOLEAN]

Slots == 1..MaxOps

\* The triggers are taken while the session has room for the tasks they
\* start (MaxOps bounds the session).
Next ==
  \/ Room(1) /\ ClickRefresh
  \/ Room(1) /\ \E e \in KeyEvents : KeyDown(e)
  \/ Room(1) /\ \E success \in BOOLEAN : ClickDemo(success)
  \/ Room(2) /\ \E u \in Users : IdentityChange(u)
  \/ \E i \in Slots : ServeReset(i)
  \/ \E i \in Slots : ServeTable(i)
  \/ \E i \in Slots : ServeUpdate(i)
  \/ \E i \in Slots : ResetDone(i)
  \/ \E i \in Slots : RefreshDone(i)
  \/ \E i \in Slots : ChooseDone(i)
  \/ \E i \in Slots : UpdateDone(i)

Spec == Init /\ [][Next]_vars

\* A request in flight is answered or fails, and the event loop runs the
\* continuation that is due: some pending task always gets its next step.
\* (Each task needs finitely many steps, so every issued request
\* eventually completes.)
Progress ==
  \E i \in Slots :
    \/ ServeReset(i) \/ ServeTable(i) \/ ServeUpdate(i)
    \/ ResetDone(i) \/ RefreshDone(i) \/ ChooseDone(i) \/ UpdateDone(i)

Fairness == WF_vars(Progress)

\* The panel used by one patient person: a button is clicked, a key is
\* pressed or the identity is changed only once everything started before
\* has finished (the first render's reset and fetch still run side by
\* side).  Every behaviour of SerialSpec is one of the panel's.
Idle == \A i \in OpIds : ~InFlight(i)

SerialRoom(n) == Idle /\ Len(ops) + n <= MaxSerialOps

SerialSlots == 1..MaxSerialOps

SerialNext ==
  \/ SerialRoom(1) /\ ClickRefresh
  \/ SerialRoom(1) /\ \E e \in KeyEvents : KeyPress(e)
  \/ SerialRoom(1) /\ \E success \in BOOLEAN : ClickDemo(success)
  \/ SerialRoom(2) /\ \E u \in Users : IdentityChange(u)
  \/ \E i \in SerialSlots : ServeReset(i)
  \/ \E i \in SerialSlots : ServeTable(i)
  \/ \E i \in SerialSlots : ServeUpdate(i)
  \/ \E i \in SerialSlots : ResetDone(i)
  \/ \E i \in SerialSlots : RefreshDone(i)
  \/ \E i \in SerialSlots : ChooseDone(i)
  \/ \E i \in SerialSlots : UpdateDone(i)

SerialSpec == Init /\ [][SerialNext]_vars

LiveSpec == Init /\ [][Next]_vars /\ Fairness

(* ------------------------------------------------------------------ *)
(* Properties                                                         *)
(* ------------------------------------------------------------------ *)

Running(kinds) == {i \in OpIds : ops[i].kind \in kinds /\ InFlight(i)}

Demos == {i \in OpIds : ops[i].kind = "demo"}

\* The client resumes task i with a response (the service's steps leave
\* the task's step as it is, and only the client's end it or move it on).
Steps(i) == i \in OpIds /\ ops'[i].step # ops[i].step

\* C1 (as claimed): at most one refresh or demo sequence is in flight in
\* every reachable state, so at most one /q/choose, /q/update or /q/table
\* request of theirs is outstanding: no trigger starts one while another
\* runs.
C1_SingleFlight == Cardinality(Running({"refresh", "demo"})) <= 1

\* C2: at most one demo sequence is in flight, and busyDemo is true for as
\* long as one is.
C2_OneDemo ==
  /\ Cardinality(Running({"demo"})) <= 1
  /\ Running({"demo"}) # {} => busyDemo

\* C2 witness: a second demo sequence runs after a first one has finished,
\* with no refresh flag set (busyDemo alone disables the demo buttons).
C2_Witness ==
  /\ \E i \in Demos : ~InFlight(i)
  /\ \E j \in Demos : ops[j].step = "choose"
  /\ ~refreshing

\* C3 (as claimed): once a demo sequence has finished without error, rows
\* written by a table response were read by the service after that
\* sequence's update was applied (no stale overwrite at or after its end).
C3_NoStaleOverwrite ==
  \A d \in Demos :
    (ops[d].outcome = "ok" /\ hist.rowsOp # 0 /\ ops[hist.rowsOp].kind # "reset")
      => d \in hist.rowsAsOf

\* C4: the step that handles a failed table fetch (network failure,
\* non-2xx status, unparseable body) leaves rows and lastUpdated as they
\* were and sets a non-empty error message.
C4_RefreshFailureKeepsTable ==
  [][\A i \in OpIds :
       (At(i, "table") /\ Steps(i) /\ ops'[i].outcome = "fail")
         => /\ rows' = rows
            /\ lastUpdated' = lastUpdated
            /\ error' # ""]_vars

\* C4 witness: a refresh has failed while a populated table is displayed.
C4_Witness ==
  /\ \E i \in OpIds : ops[i].kind = "refresh" /\ ops[i].outcome = "fail"
  /\ error = "GET /q/table HTTP 500"
  /\ rows # {}

\* C5, order: a demo sequence that has issued /q/update has had its
\* /q/choose succeed, and one that has issued /q/table has had its
\* /q/update succeed; the requests are issued in that order.
C5_Ordered ==
  \A i \in Running({"demo"}) :
    /\ ops[i].step \in {"update", "table"} => "choose" \in ops[i].okCalls
    /\ ops[i].step = "table" => "update" \in ops[i].okCalls
    /\ ops[i].calls \in {<<"choose">>, <<"choose", "update">>,
                          <<"choose", "update", "table">>}
    /\ ops[i].step = ops[i].calls[Len(ops[i].calls)]

\* C5, short-circuit: the step that handles a failed /q/choose or
\* /q/update (the sequence ends there, by C5_Ordered) sets the error.
C5_ShortCircuit ==
  \A i \in OpIds :
    ((At(i, "choose") \/ At(i, "update")) /\ Steps(i) /\ ops'[i].outcome = "fail")
      => ops'[i].step = "done" /\ error' # ""

\* C5: within one demo sequence the requests are strictly ordered and a
\* failed step aborts the rest, with the error message set.
C5_DemoSequence == []C5_Ordered /\ [][C5_ShortCircuit]_vars

\* C5 witness: one demo sequence has run to its end through all three
\* requests, and another has failed with its error displayed.
C5_Witness ==
  /\ \E i \in Demos : ops[i].outcome = "ok"
  /\ \E j \in Demos : ops[j].outcome = "fail"
  /\ error # ""

\* C6 (as claimed): the displayed rows are the rows of the most recent
\* successful /q/table response, empty before any.
C6_RowsAreLastResponse == rows = hist.lastOkRows

\* C6 (amended): the displayed rows are the rows of the most recent
\* successful /q/table response, or empty when there was none yet or a
\* /reset response was handled since; never a merge of two responses.
C6_AtomicReplace == rows = IF hist.cleared THEN {} ELSE hist.lastOkRows

\* C6 witness: a table response has replaced displayed rows that it does
\* not contain (a merge would have kept them).
C6_Witness ==
  /\ hist.rowsOp # 0
  /\ ~hist.cleared
  /\ hist.prevRows # {}
  /\ ~(hist.prevRows \subseteq rows)

\* C7, release: the step that ends a demo sequence clears busyDemo, and
\* the step that ends a refresh (a demo's terminal one included) clears
\* refreshing.
C7_ReleasesFlag ==
  \A i \in OpIds :
    (Steps(i) /\ ops'[i].step = "done")
      => /\ ops[i].kind = "demo" => ~busyDemo'
         /\ ops[i].step = "table" => ~refreshing'

\* C7: provided every request completes, every started demo sequence and
\* every started refresh ends, and ends by clearing its busy flag,
\* whichever step failed.
C7_GuaranteedRelease ==
  /\ \A i \in Slots :
       (i \in OpIds /\ ops[i].kind # "reset" /\ InFlight(i))
         ~> (i \in OpIds /\ ~InFlight(i))
  /\ [][C7_ReleasesFlag]_vars

\* C7 witness: a demo sequence and a refresh have both ended in failure,
\* nothing is in flight and both flags are clear.
C7_Witness ==
  /\ \E i \in Demos : ops[i].outcome = "fail"
  /\ \E j \in OpIds : ops[j].kind = "refresh" /\ ops[j].outcome = "fail"
  /\ Running({"refresh", "demo"}) = {}
  /\ ~busyDemo /\ ~refreshing

\* C8 (as claimed): the step that handles a failed POST /reset (network
\* failure or non-2xx response) leaves rows, lastUpdated, error and both
\* busy flags unchanged.
C8_FailedResetNoEffect ==
  [][\A i \in OpIds :
       (At(i, "reset") /\ Steps(i) /\ ops'[i].outcome = "fail")
         => UNCHANGED <<rows, lastUpdated, error, busyDemo, refreshing>>]_vars

\* The reset task issued by the identity change whose initial fetch is
\* task j (the effects start them together, the reset first), else 0.
ResetOf(j) == IF j > 1 /\ ops[j - 1].kind = "reset" THEN j - 1 ELSE 0

\* Every task that fetches /q/table for an identity was started after a
\* reset task for that identity: the POST /reset was issued first.
ResetIssuedFirst ==
  \A j \in OpIds :
    ops[j].kind # "reset"
      => \E k \in 1..(j - 1) : ops[k].kind = "reset" /\ ops[k].user = ops[j].user

\* C9 (as claimed): the reset is issued before the first table fetch of an
\* identity, and the table response the initial fetch applies was read
\* after the service applied that reset.
C9_ResetPrecedesRefresh ==
  /\ ResetIssuedFirst
  /\ (hist.rowsOp # 0 /\ ResetOf(hist.rowsOp) # 0)
       => ResetOf(hist.rowsOp) \in hist.rowsAsOf

\* C9 (amended): on every identity change, first mount included, the POST
\* /reset is issued before the first GET /q/table for that identity; the
\* table response applied may still predate the reset.
C9_ResetIssuedFirst == ResetIssuedFirst

\* C9 witness: the identity has changed and the table fetched for the new
\* identity is displayed.
C9_Witness ==
  /\ userId # DefaultUser
  /\ hist.rowsOp # 0
  /\ ops[hist.rowsOp].kind = "refresh"
  /\ ops[hist.rowsOp].user = userId

\* C10 (as claimed): lastUpdated is non-null only once a refresh has
\* succeeded, and is then the time the last successful refresh completed.
C10_OnlyRefreshStamps ==
  lastUpdated # Null => (hist.okAt # Null /\ lastUpdated = hist.okAt)

\* C10 (amended): lastUpdated is null until the first successful refresh
\* or the first /reset response handled (whatever its status), and is
\* then the time the last of these completed.
C10_LastUpdated == lastUpdated = hist.stampAt

\* C10 witness: a refresh has succeeded and a /reset response handled
\* after it has moved lastUpdated on.
C10_Witness ==
  /\ hist.okAt # Null
  /\ lastUpdated # Null
  /\ lastUpdated # hist.okAt

\* The task started last, when the step started exactly one.
Started == IF Len(ops') = Len(ops) + 1 THEN Len(ops') ELSE 0

\* C11 (as claimed): a refresh started by the Refresh button or by the 'r'
\* key (a step that starts one refresh task and nothing else) requests
\* /q/table for the identity that is active at that moment.
C11_RefreshForCurrentIdentity ==
  [][(Started # 0 /\ ops'[Len(ops')].kind = "refresh")
       => ops'[Len(ops')].user = userId]_vars

\* C12 (as claimed): the step that handles a 2xx /q/table response whose
\* JSON body has no rows array (the body {} or the body null) empties the
\* displayed table, moves lastUpdated on, leaves the error message empty
\* and does not end the refresh as a failure.
C12_MalformedTolerated ==
  [][\A i \in OpIds : \A r \in {EmptyJson, NullJson} :
       (At(i, "table") /\ RefreshHandle(i, r))
         => /\ rows' = {}
            /\ lastUpdated' # Null /\ lastUpdated' # lastUpdated
            /\ error' = ""
            /\ ops'[i].outcome = "ok"]_vars

\* The step starts a refresh or demoStep attempt: a trigger starts a task,
\* or a demo sequence reaches its `await refresh()`.
StartsAttempt ==
  \/ Len(ops') > Len(ops)
  \/ \E i \in OpIds : ops[i].step = "update" /\ ops'[i].step = "table"

\* The step ends a refresh or a demo sequence in failure.
Fails == \E i \in OpIds : ops[i].kind # "reset" /\ Steps(i) /\ ops'[i].outcome = "fail"

\* C13: the error message becomes empty only in a step that starts a
\* refresh or demoStep attempt, changes to a non-empty message only in a
\* step in which a refresh or demoStep fails, and every such failure
\* leaves it non-empty; no other step (a reset's, a success) changes it.
C13_ErrorLifecycle ==
  [][/\ (error' # error /\ error' = "") => StartsAttempt
     /\ (error' # error /\ error' # "") => Fails
     /\ Fails => error' # ""]_vars

\* C13 witness: a demo sequence has failed, the reset has since been
\* handled, nothing is in flight and the error is still displayed.
C13_Witness ==
  /\ error # ""
  /\ \E i \in Demos : ops[i].outcome = "fail"
  /\ hist.rowsOp # 0 /\ ops[hist.rowsOp].kind = "reset"
  /\ \A i \in OpIds : ~InFlight(i)

\* C14 (as claimed): a demo sequence that has issued /q/update got an
\* action identifier from its /q/choose response, and the update request
\* carries that action.
C14_UpdateNeedsAction ==
  \A i \in Running({"demo"}) :
    /\ ops[i].step \in {"update", "table"} => ops[i].hasAction
    /\ ops[i].step = "update"
         => ops[i].req.hasAction /\ ops[i].req.action = ops[i].action

\* Task i is resumed with a well-formed table response, and it is the
\* second of two refreshes run one after the other against an unchanged
\* table: the rows on display were written by an earlier table response
\* for the same identity, which carried the same table, and the service
\* applied no write between producing the two.
SecondOfTwo(i) ==
  /\ At(i, "table") /\ Steps(i)
  /\ ops[i].phase = "replied" /\ ops[i].resp.isArray
  /\ hist.rowsOp # 0
  /\ ops[hist.rowsOp].kind # "reset"
  /\ ops[hist.rowsOp].user = ops[i].user
  /\ hist.rowsAsOf = ops[i].resp.asOf
  /\ hist.lastOkRows = ops[i].resp.rows

C16_NoModifier ==
  hist.fired # NoEvent
    => /\ ToLowerCase(hist.fired.key) = "r"
       /\ ~hist.fired.ctrlKey /\ ~hist.fired.metaKey
       /\ ~hist.fired.altKey /\ ~hist.fired.shiftKey

\* C17: the step that changes the identity leaves every task in flight as
\* it is, and the step that handles a table response fetched for an
\* identity that is no longer the active one displays its rows and moves
\* lastUpdated on all the same.  (That every task in flight then ends is
\* C7_GuaranteedRelease.)
C17_NoCancellation ==
  [][/\ userId' # userId => \A i \in OpIds : ops'[i] = ops[i]
     /\ \A i \in OpIds :
          (At(i, "table") /\ Steps(i) /\ ops[i].phase = "replied"
             /\ ops[i].user # userId)
            => /\ rows' = ops[i].resp.rows
               /\ lastUpdated' = <<now>>
               /\ ops'[i].outcome = "ok"]_vars

\* C17 witness: the first identity's initial fetch was answered with a
\* populated table, the identity changed, the new identity's reset was
\* handled, and then the first identity's rows were displayed.
C17_Witness ==
  /\ userId # DefaultUser
  /\ hist.rowsOp = 2 /\ ops[2].user = DefaultUser
  /\ Len(ops) >= 3 /\ ops[3].kind = "reset" /\ ops[3].outcome = "ok"
  /\ ~hist.cleared
  /\ rows # {}

\* The /q/update request body p of a demo step with outcome success,
\* against the state sent to /q/choose: the same state, reward +1 or -1,
\* next_state equal to the state but for its success rate (raised for a
\* success, lowered for a failure), done false.
UpdatePayloadOk(p, state, success) ==
  /\ p.path = "/q/update"
  /\ p.state = state
  /\ p.reward = 1 /\ p.positive = success
  /\ [p.next_state EXCEPT !.recentSR = state.recentSR] = state
  /\ IF success THEN p.next_state.recentSR > state.recentSR
                ELSE p.next_state.recentSR < state.recentSR
  /\ p.done = FALSE

\* C18: the step that sends /q/update builds its body from the state that
\* was sent to /q/choose and the outcome, as UpdatePayloadOk says, with
\* the action the choose response gave; the request is the same until it
\* is answered.
C18_UpdatePayload ==
  [][\A i \in OpIds :
       /\ (At(i, "choose") /\ ops'[i].step = "update")
            => /\ UpdatePayloadOk(ops'[i].req, ops[i].req.state, ops[i].success)
               /\ ops'[i].req.hasAction = ops'[i].hasAction
               /\ ops'[i].req.action = ops'[i].action
       /\ (At(i, "update") /\ ops'[i].step = "update")
            => ops'[i].req = ops[i].req /\ ops'[i].action = ops[i].action]_vars

\* C18 witness: after a demo sequence that ran to its end, a failure demo
\* step has had its /q/update sent with the chosen action and awaits the
\* answer.
C18_Witness ==
  \E i, j \in Demos :
    /\ i < j /\ ops[i].outcome = "ok"
    /\ ops[j].step = "update" /\ ops[j].req.hasAction
    /\ ops[j].req.action \in Actions
    /\ ~ops[j].req.positive

\* C19: in every reachable state in which no refresh and no demo sequence
\* is in flight, busyDemo and refreshing are both false.
C19_NoLeak ==
  Running({"refresh", "demo"}) = {} => ~busyDemo /\ ~refreshing

\* C19 witness: the identity has changed, the refreshes of both identities
\* have ended, one of them in failure, and both flags are clear.
C19_Witness ==
  /\ userId # DefaultUser
  /\ Running({"refresh", "demo"}) = {}
  /\ \E i, j \in OpIds :
       /\ ops[i].kind = "refresh" /\ ops[i].user = DefaultUser
       /\ ops[j].kind = "refresh" /\ ops[j].user = userId
       /\ "fail" \in {ops[i].outcome, ops[j].outcome}
  /\ ~busyDemo /\ ~refreshing

\* C20 (as claimed): in every reachable state in which a table fetch (a
\* refresh started by the button, the key or an identity change, or a demo
\* sequence's) is pending, refreshing is true.
C20_BusyWhileRefreshing ==
  (\E i \in OpIds : ops[i].step = "table") => refreshing

====
